---- MODULE Spec2Model ----
(***************************************************************************)
(* A model of app.py (Agrinfo): the data-aggregation helpers               *)
(* (get_weather_data, get_soil_type, reverse_geocode, get_live_shop_list), *)
(* the recommendation rules, one render of show_main_app, the account      *)
(* store behind register_farmer, the page router of main with the buttons  *)
(* of the three pages, and the two inventory collections of tab 3.         *)
(*                                                                         *)
(* Python values are modelled as follows.                                  *)
(*   - None is the empty tuple; a present value v is the 1-tuple <<v>>.    *)
(*   - Text that the code searches, strips or joins is a tuple of          *)
(*     one-character strings; text that is only concatenated is a string.  *)
(*   - Real numbers are integers on a grid.  np.mean over three entries is *)
(*     kept exact by carrying amounts in thirds of a millimetre; the       *)
(*     vegetation index is carried in hundredths.                          *)
(***************************************************************************)
EXTENDS Integers, Sequences, FiniteSets, TLC

VARIABLES
    pc,              \* position of the running script
    exc,             \* the exception that left the script, or "none"
    calls,           \* number of requests issued, per external service
    shown,           \* st.error / st.info messages shown by the render
    temp,            \* show_main_app locals, as returned by get_weather_data
    current_precip,
    lat,
    lon,
    hourly_precip,
    irrigation_req,  \* in thirds of a millimetre
    ndvi_val,        \* in hundredths
    soil_selected,
    fertilizer,
    pesticide,
    elements,        \* get_live_shop_list: data.get("elements", [])
    idx,             \* get_live_shop_list: number of elements already looped over
    shops,           \* get_live_shop_list: the list being built
    rev_log,         \* the reverse_geocode calls made: arguments and response
    soil_r,          \* get_soil_type: the response r
    fractions,       \* get_soil_type: the locals sand, clay, silt
    soil_type,       \* get_soil_type: the returned value
    farmers_col,     \* the farmers collection, in insertion order
    reg,             \* per session: the register_farmer call in progress
    session_state,   \* per session: st.session_state (logged_in, page, username)
    crop_inventory_col,       \* the crop_inventory collection, in insertion order
    pesticide_inventory_col,  \* the pesticide_inventory collection, in insertion order
    event            \* the latest script run: session, button pressed, what it showed

vars == <<pc, exc, calls, shown, temp, current_precip, lat, lon, hourly_precip,
          irrigation_req, ndvi_val, soil_selected, fertilizer, pesticide,
          elements, idx, shops, rev_log, soil_r, fractions, soil_type, farmers_col, reg,
          session_state, crop_inventory_col, pesticide_inventory_col, event>>

(***************************************************************************)
(* Python values                                                           *)
(***************************************************************************)
None == <<>>

Some(v) == <<v>>

Val(o) == o[1]

Max(a, b) == IF a >= b THEN a ELSE b

RECURSIVE Sum(_)
Sum(s) == IF s = <<>> THEN 0 ELSE Head(s) + Sum(Tail(s))

\* s[-n:]
LastN(s, n) == IF Len(s) <= n THEN s ELSE SubSeq(s, Len(s) - n + 1, Len(s))

\* all sequences over S of length at most n
SeqUpTo(S, n) == UNION {[1..k -> S] : k \in 0..n}

(***************************************************************************)
(* Bounds of the model                                                     *)
(***************************************************************************)
\* temperatures are 10 * k degrees, k in -1..MaxTempStep
MaxTempStep == 3

\* hourly precipitation entries are 5 * k millimetres, k in 0..MaxRainStep
MaxRainStep == 1

\* longest hourly series of a forecast payload
MaxHours == 4

(***************************************************************************)
(* Responses of the external services                                      *)
(*                                                                         *)
(* A request either raises inside requests (kind "transport"), or returns  *)
(* a response whose status is not 200 (kind "status"), or returns 200 with *)
(* a body that is not the JSON the code indexes into (kind "malformed"),   *)
(* or returns 200 with a well-formed body (kind "ok").                     *)
(***************************************************************************)
Failure(kind) == [kind |-> kind, body |-> None]

Ok(body) == [kind |-> "ok", body |-> Some(body)]

FailureKinds == {"transport", "status", "malformed"}

Temps == {10 * k : k \in -1..MaxTempStep}

Rains == {5 * k : k \in 0..MaxRainStep}

\* Forecast bodies: hourly.time is the hours 1..n, hourly.precipitation has
\* one entry per hour, current_weather.time is an hour that may lie outside
\* the series.
WeatherBodies ==
    {[temperature |-> t, time |-> h, hourly_time |-> [i \in 1..Len(p) |-> i],
      hourly_precipitation |-> p] :
        t \in Temps, h \in 1..(MaxHours + 1), p \in SeqUpTo(Rains, MaxHours)}

\* The forecast bodies one render is checked with.
RenderWeatherBodies ==
    {w \in WeatherBodies :
        /\ w.temperature \in {20, 30}
        /\ w.time = 1
        /\ w.hourly_precipitation \in {<<>>, <<0, 0, 0>>, <<5, 5, 5>>}}

\* Forward geocoding bodies: a list of places, the first of which is used.
GeoBodies == {<<>>, <<[lat |-> 19, lon |-> 72]>>}

(***************************************************************************)
(* get_weather_data                                                        *)
(***************************************************************************)
\* s.index(x) for x in s; 0 when absent
RECURSIVE IndexFrom(_, _, _)
IndexFrom(s, x, i) ==
    IF i > Len(s) THEN 0
    ELSE IF s[i] = x THEN i
    ELSE IndexFrom(s, x, i + 1)

IndexOf(s, x) == IndexFrom(s, x, 1)

\* hourly_precip[hourly_times.index(current_time)] if current_time in hourly_times else 0
CurrentPrecip(w) ==
    IF IndexOf(w.hourly_time, w.time) # 0
    THEN w.hourly_precipitation[IndexOf(w.hourly_time, w.time)]
    ELSE 0

InTab1 == pc \in {"tab1_geo", "tab1_weather"}

\* the exception leaves show_main_app: the script run ends there
Raise(e) ==
    /\ exc' = e
    /\ pc' = "crashed"

\* return ... to the caller: tab 1 binds all six values, tab 2 discards the
\* hourly series (temp, current_precip, lat, lon, _, _ = ...)
ReturnWeather(t, c, la, lo, hp) ==
    /\ temp' = t
    /\ current_precip' = c
    /\ lat' = la
    /\ lon' = lo
    /\ hourly_precip' = IF InTab1 THEN hp ELSE hourly_precip
    /\ pc' = IF InTab1 THEN "tab1_show" ELSE "tab2_show"
    /\ exc' = exc

\* get_weather_data up to the forward-geocoding response.  The function's
\* own lat and lon are kept in the caller's: the caller does not read its
\* lat and lon between the call and the return that rebinds them.
GeocodeStep(r) ==
    /\ pc \in {"tab1_geo", "tab2_geo"}
    /\ calls' = [calls EXCEPT !.geocode = @ + 1]
    /\ IF r.kind = "transport" THEN
            /\ Raise("ConnectionError")
            /\ UNCHANGED <<temp, current_precip, lat, lon, hourly_precip>>
       ELSE IF r.kind = "status" THEN
            ReturnWeather(None, None, None, None, None)
       ELSE IF r.kind = "malformed" THEN
            /\ Raise("JSONDecodeError")
            /\ UNCHANGED <<temp, current_precip, lat, lon, hourly_precip>>
       ELSE IF Val(r.body) = <<>> THEN
            ReturnWeather(None, None, None, None, None)
       ELSE
            /\ lat' = Some(Val(r.body)[1].lat)
            /\ lon' = Some(Val(r.body)[1].lon)
            /\ pc' = IF InTab1 THEN "tab1_weather" ELSE "tab2_weather"
            /\ UNCHANGED <<exc, temp, current_precip, hourly_precip>>
    /\ UNCHANGED <<shown, irrigation_req, ndvi_val, soil_selected, fertilizer,
                   pesticide, elements, idx, shops, rev_log, soil_r, fractions, soil_type,
                   farmers_col, reg,
                   session_state, crop_inventory_col, pesticide_inventory_col, event>>

\* get_weather_data from the forecast request to its return
WeatherStep(r) ==
    /\ pc \in {"tab1_weather", "tab2_weather"}
    /\ calls' = [calls EXCEPT !.weather = @ + 1]
    /\ IF r.kind = "transport" THEN
            /\ Raise("ConnectionError")
            /\ UNCHANGED <<temp, current_precip, lat, lon, hourly_precip>>
       ELSE IF r.kind = "status" THEN
            ReturnWeather(None, None, lat, lon, None)
       ELSE IF r.kind = "malformed" THEN
            /\ Raise("KeyError")
            /\ UNCHANGED <<temp, current_precip, lat, lon, hourly_precip>>
       ELSE
            ReturnWeather(Some(Val(r.body).temperature),
                          Some(CurrentPrecip(Val(r.body))),
                          lat, lon,
                          Some(Val(r.body).hourly_precipitation))
    /\ UNCHANGED <<shown, irrigation_req, ndvi_val, soil_selected, fertilizer,
                   pesticide, elements, idx, shops, rev_log, soil_r, fractions, soil_type,
                   farmers_col, reg,
                   session_state, crop_inventory_col, pesticide_inventory_col, event>>

(***************************************************************************)
(* show_main_app, tab 1: the irrigation recommendation                     *)
(***************************************************************************)
\* a faulty variant of AvgRain3: the first three entries instead of the last three
AvgRain3First(hp, cp) ==
    IF hp # <<>> /\ Len(hp) >= 3 THEN Sum(SubSeq(hp, 1, 3)) ELSE 3 * cp

\* np.mean(hourly_precip[-3:]) if hourly_precip and len(hourly_precip) >= 3
\* else current_precip, in thirds
AvgRain3(hp, cp) ==
    IF hp # <<>> /\ Len(hp) >= 3 THEN Sum(LastN(hp, 3)) ELSE 3 * cp

\* max(0, 25 + (temp - 20) - avg_rain), in thirds
IrrigationReq3(t, hp, cp) == Max(0, 3 * (25 + (t - 20)) - AvgRain3(hp, cp))

\* a faulty variant of Tab1Show: get_weather_data is called again when it
\* returned no temperature
Tab1ShowRetry ==
    /\ pc = "tab1_show"
    /\ IF temp = None THEN
            /\ shown' = shown \cup {"Could not fetch weather data. Check city name."}
            /\ irrigation_req' = irrigation_req
            /\ pc' = "tab1_geo"
       ELSE
            /\ irrigation_req' =
                   Some(IrrigationReq3(Val(temp), Val(hourly_precip), Val(current_precip)))
            /\ shown' = shown
            /\ pc' = "tab2_geo"
    /\ UNCHANGED <<exc, calls, temp, current_precip, lat, lon, hourly_precip,
                   ndvi_val, soil_selected, fertilizer, pesticide, elements, idx,
                   shops, rev_log, soil_r, fractions, soil_type, farmers_col, reg,
                   session_state, crop_inventory_col, pesticide_inventory_col, event>>

\* lines 429-453: the error, or the recommendation and the satellite view
Tab1Show ==
    /\ pc = "tab1_show"
    /\ IF temp = None THEN
            /\ shown' = shown \cup {"Could not fetch weather data. Check city name."}
            /\ irrigation_req' = irrigation_req
       ELSE
            /\ irrigation_req' =
                   Some(IrrigationReq3(Val(temp), Val(hourly_precip), Val(current_precip)))
            /\ shown' = shown
    /\ pc' = "tab2_geo"
    /\ UNCHANGED <<exc, calls, temp, current_precip, lat, lon, hourly_precip,
                   ndvi_val, soil_selected, fertilizer, pesticide, elements, idx,
                   shops, rev_log, soil_r, fractions, soil_type, farmers_col, reg,
                   session_state, crop_inventory_col, pesticide_inventory_col, event>>

(***************************************************************************)
(* get_fertilizer_pesticide_recommendations                                *)
(***************************************************************************)
soil_types == <<"Sandy", "Loamy", "Clay", "Silty">>

SoilCategories == {soil_types[i] : i \in 1..Len(soil_types)}

\* the soil-type suffix of the fertilizer text (lines 328-335)
SoilClause(s) ==
    IF s = "Sandy" THEN " (Add extra organic matter & water)"
    ELSE IF s = "Clay" THEN " (Ensure drainage, avoid overwatering)"
    ELSE IF s = "Loamy" THEN " (Balanced approach)"
    ELSE IF s = "Silty" THEN " (Moderate water-holding capacity)"
    ELSE ""

\* a faulty variant of Band: the upper threshold taken inclusively (ndvi <= 0.7)
BandInclusive(ndvi) ==
    IF ndvi < 50 THEN "high" ELSE IF ndvi <= 70 THEN "moderate" ELSE "minimal"

\* the branch of lines 318-326 taken for a vegetation index in hundredths
Band(ndvi) ==
    IF ndvi < 50 THEN "high" ELSE IF ndvi < 70 THEN "moderate" ELSE "minimal"

BandFert(b) ==
    IF b = "high" THEN "High NPK mix (Urea, DAP, MOP)"
    ELSE IF b = "moderate" THEN "Moderate NPK mix (Balanced fertilizer)"
    ELSE "Minimal fertilizer needed"

BandPest(b) ==
    IF b = "high" THEN "Broad-spectrum insecticide (e.g., Chlorpyrifos)"
    ELSE IF b = "moderate" THEN "Targeted pesticide (e.g., Imidacloprid)"
    ELSE "No pesticide required"

\* returns <<fert, pest>>
get_fertilizer_pesticide_recommendations(ndvi, soil_type_arg) ==
    <<BandFert(Band(ndvi)) \o SoilClause(soil_type_arg), BandPest(Band(ndvi))>>

(***************************************************************************)
(* show_main_app, tab 2                                                    *)
(***************************************************************************)
\* vegetation index values are -MaxNdvi..MaxNdvi hundredths
MaxNdvi == 100

NdviValues == (0 - MaxNdvi)..MaxNdvi

\* the values one render is checked with: the band boundaries
RenderNdviValues == {49, 50, 69, 70}

\* get_real_ndvi: getInfo() yields a number or nothing, or the call raises
NdviOutcomes(values) ==
    {[kind |-> "ok", value |-> Some(v)] : v \in values}
        \cup {[kind |-> "ok", value |-> None], [kind |-> "raise", value |-> None]}

\* lines 456-458: without a temperature nothing else of tab 2 runs
Tab2Show ==
    /\ pc = "tab2_show"
    /\ IF temp = None THEN
            /\ shown' = shown \cup {"Could not fetch weather data. Check city name."}
            /\ pc' = "tab3"
       ELSE
            /\ shown' = shown
            /\ pc' = "tab2_ndvi"
    /\ UNCHANGED <<exc, calls, temp, current_precip, lat, lon, hourly_precip,
                   irrigation_req, ndvi_val, soil_selected, fertilizer, pesticide,
                   elements, idx, shops, rev_log, soil_r, fractions, soil_type, farmers_col, reg,
                   session_state, crop_inventory_col, pesticide_inventory_col, event>>

\* lines 459-463: try: ndvi_val = get_real_ndvi(lat, lon) except Exception: ...
NdviStep(o) ==
    /\ pc = "tab2_ndvi"
    /\ calls' = [calls EXCEPT !.ndvi = @ + 1]
    /\ IF o.kind = "raise" THEN
            /\ shown' = shown \cup {"Error fetching NDVI data."}
            /\ ndvi_val' = None
       ELSE
            /\ shown' = shown
            /\ ndvi_val' = o.value
    /\ pc' = "tab2_fert"
    /\ UNCHANGED <<exc, temp, current_precip, lat, lon, hourly_precip,
                   irrigation_req, soil_selected, fertilizer, pesticide,
                   elements, idx, shops, rev_log, soil_r, fractions, soil_type, farmers_col, reg,
                   session_state, crop_inventory_col, pesticide_inventory_col, event>>

\* a faulty variant of Tab2Fert: a missing index is taken to be 0 and the
\* recommendation is computed all the same
Tab2FertAlways(picked) ==
    /\ pc = "tab2_fert"
    /\ soil_selected' = Some(picked)
    /\ fertilizer' =
           Some(get_fertilizer_pesticide_recommendations(
                    IF ndvi_val # None THEN Val(ndvi_val) ELSE 0, picked)[1])
    /\ pesticide' =
           Some(get_fertilizer_pesticide_recommendations(
                    IF ndvi_val # None THEN Val(ndvi_val) ELSE 0, picked)[2])
    /\ shown' = IF ndvi_val # None THEN shown
                ELSE shown \cup {"NDVI data unavailable."}
    /\ pc' = "shop_request"
    /\ UNCHANGED <<exc, calls, temp, current_precip, lat, lon, hourly_precip,
                   irrigation_req, ndvi_val, elements, idx, shops, rev_log, soil_r,
                   fractions, soil_type, farmers_col, reg,
                   session_state, crop_inventory_col, pesticide_inventory_col, event>>

\* lines 464-473: the recommendation for the soil type picked in the select
\* box, or the error
Tab2Fert(picked) ==
    /\ pc = "tab2_fert"
    /\ IF ndvi_val # None THEN
            /\ soil_selected' = Some(picked)
            /\ fertilizer' =
                   Some(get_fertilizer_pesticide_recommendations(Val(ndvi_val), picked)[1])
            /\ pesticide' =
                   Some(get_fertilizer_pesticide_recommendations(Val(ndvi_val), picked)[2])
            /\ shown' = shown
       ELSE
            /\ shown' = shown \cup {"NDVI data unavailable."}
            /\ UNCHANGED <<soil_selected, fertilizer, pesticide>>
    /\ pc' = "shop_request"
    /\ UNCHANGED <<exc, calls, temp, current_precip, lat, lon, hourly_precip,
                   irrigation_req, ndvi_val, elements, idx, shops, rev_log, soil_r, fractions,
                   soil_type, farmers_col, reg,
                   session_state, crop_inventory_col, pesticide_inventory_col, event>>

(***************************************************************************)
(* Text: tuples of one-character strings                                   *)
(***************************************************************************)
UpperCase ==
    <<"A", "B", "C", "D", "E", "F", "G", "H", "I", "J", "K", "L", "M",
      "N", "O", "P", "Q", "R", "S", "T", "U", "V", "W", "X", "Y", "Z">>

LowerCase ==
    <<"a", "b", "c", "d", "e", "f", "g", "h", "i", "j", "k", "l", "m",
      "n", "o", "p", "q", "r", "s", "t", "u", "v", "w", "x", "y", "z">>

UpperSet == {UpperCase[i] : i \in 1..Len(UpperCase)}

LowerOf == [c \in UpperSet |-> LowerCase[IndexOf(UpperCase, c)]]

LowerChar(c) == IF c \in UpperSet THEN LowerOf[c] ELSE c

\* str.lower()
Lower(t) == [i \in 1..Len(t) |-> LowerChar(t[i])]

Whitespace == {" "}

RECURSIVE LStrip(_)
LStrip(t) ==
    IF t # <<>> /\ Head(t) \in Whitespace THEN LStrip(Tail(t)) ELSE t

RECURSIVE RStrip(_)
RStrip(t) ==
    IF t # <<>> /\ t[Len(t)] \in Whitespace
    THEN RStrip(SubSeq(t, 1, Len(t) - 1))
    ELSE t

\* str.strip()
Strip(t) == RStrip(LStrip(t))

\* k in t, for texts
Contains(t, k) ==
    \E i \in 0..(Len(t) - Len(k)) : SubSeq(t, i + 1, i + Len(k)) = k

\* sep.join(parts)
RECURSIVE Join(_, _)
Join(sep, parts) ==
    IF parts = <<>> THEN <<>>
    ELSE IF Len(parts) = 1 THEN parts[1]
    ELSE parts[1] \o sep \o Join(sep, Tail(parts))

\* "agro"
KwAgro ==
    <<"a", "g", "r", "o">>

\* "farm"
KwFarm ==
    <<"f", "a", "r", "m">>

\* "agr"
KwAgr ==
    <<"a", "g", "r">>

\* "hort"
KwHort ==
    <<"h", "o", "r", "t">>

\* "garden"
KwGarden ==
    <<"g", "a", "r", "d", "e", "n">>

\* "agriculture"
KwAgriculture ==
    <<"a", "g", "r", "i", "c", "u", "l", "t", "u", "r", "e">>

\* "clothes"
ExClothes ==
    <<"c", "l", "o", "t", "h", "e", "s">>

\* "apparel"
ExApparel ==
    <<"a", "p", "p", "a", "r", "e", "l">>

\* "fashion"
ExFashion ==
    <<"f", "a", "s", "h", "i", "o", "n">>

\* "footwear"
ExFootwear ==
    <<"f", "o", "o", "t", "w", "e", "a", "r">>

\* "Address not available"
AddressNotAvailable ==
    <<"A", "d", "d", "r", "e", "s", "s", " ", "n", "o", "t", " ", "a", "v",
      "a", "i", "l", "a", "b", "l", "e">>

\* ", "
CommaSpace ==
    <<",", " ">>

\* "Krishna Agro Center"
TxtKrishna ==
    <<"K", "r", "i", "s", "h", "n", "a", " ", "A", "g", "r", "o", " ", "C",
      "e", "n", "t", "e", "r">>

\* "City Fashion Footwear"
TxtCityFashion ==
    <<"C", "i", "t", "y", " ", "F", "a", "s", "h", "i", "o", "n", " ", "F",
      "o", "o", "t", "w", "e", "a", "r">>

\* "Farm Fashion"
TxtFarmFashion ==
    <<"F", "a", "r", "m", " ", "F", "a", "s", "h", "i", "o", "n">>

\* " AGRI Mart"
TxtAgriMart ==
    <<" ", "A", "G", "R", "I", " ", "M", "a", "r", "t">>

\* "Store"
TxtStore ==
    <<"S", "t", "o", "r", "e">>

\* "  "
TxtBlank ==
    <<" ", " ">>

\* "clothes"
TxtClothes ==
    <<"c", "l", "o", "t", "h", "e", "s">>

\* "Garden_Centre"
TxtGardenCentre ==
    <<"G", "a", "r", "d", "e", "n", "_", "C", "e", "n", "t", "r", "e">>

\* "fashion farm"
TxtFashionFarm ==
    <<"f", "a", "s", "h", "i", "o", "n", " ", "f", "a", "r", "m">>

\* " NH 8, Pune "
TxtFull ==
    <<" ", "N", "H", " ", "8", ",", " ", "P", "u", "n", "e", " ">>

\* "12"
TxtHouse ==
    <<"1", "2">>

\* "MG Road "
TxtStreet ==
    <<"M", "G", " ", "R", "o", "a", "d", " ">>

\* "Pune"
TxtCity ==
    <<"P", "u", "n", "e">>

\* "Pune, India"
TxtDisplay ==
    <<"P", "u", "n", "e", ",", " ", "I", "n", "d", "i", "a">>

(***************************************************************************)
(* reverse_geocode and get_live_shop_list                                  *)
(***************************************************************************)
keywords == <<KwAgro, KwFarm, KwAgr, KwHort, KwGarden, KwAgriculture>>

exclusions == <<ExClothes, ExApparel, ExFashion, ExFootwear>>

\* any(k in t for k in ks)
AnyIn(ks, t) == \E i \in 1..Len(ks) : Contains(t, ks[i])

\* An element of the Overpass body.  A tag the node does not carry is the
\* empty text, which is what tags.get(key, "") makes of it.
Element(name, shop, full, house, street, city, la, lo) ==
    [tags |-> [name |-> name, shop |-> shop, addr_full |-> full,
               addr_housenumber |-> house, addr_street |-> street,
               addr_city |-> city],
     lat |-> la, lon |-> lo]

\* name and shop tag of the sample nodes
SampleNames ==
    << <<TxtKrishna, <<>>>>,
       <<TxtCityFashion, TxtClothes>>,
       <<TxtFarmFashion, KwFarm>>,
       <<<<>>, KwAgro>>,
       <<TxtBlank, KwFarm>>,
       <<TxtStore, TxtGardenCentre>>,
       <<TxtStore, TxtClothes>>,
       <<TxtAgriMart, <<>>>>,
       <<TxtStore, TxtFashionFarm>> >>

\* addr:full, addr:housenumber, addr:street, addr:city of the sample nodes
SampleAddresses ==
    << <<<<>>, <<>>, <<>>, <<>>>>,
       <<TxtFull, TxtHouse, <<>>, <<>>>>,
       <<<<>>, TxtHouse, TxtStreet, TxtCity>>,
       <<<<>>, <<>>, TxtStreet, <<>>>>,
       <<TxtBlank, <<>>, TxtBlank, TxtCity>>,
       <<TxtBlank, TxtBlank, <<>>, <<>>>> >>

SampleElement(n, a) ==
    Element(SampleNames[n][1], SampleNames[n][2],
            SampleAddresses[a][1], SampleAddresses[a][2],
            SampleAddresses[a][3], SampleAddresses[a][4],
            10 * n + a, 70 + 10 * n + a)

\* every sample name without address tags, and the first and the last sample
\* name with every address
ShopElements ==
    {SampleElement(n, 1) : n \in 1..Len(SampleNames)}
        \cup {SampleElement(n, a) : n \in {1, Len(SampleNames)},
                                    a \in 1..Len(SampleAddresses)}

\* longest element list of an Overpass body
MaxElems == 2

ShopBodies == SeqUpTo(ShopElements, MaxElems)

\* the Overpass bodies one render is checked with
RenderShopBodies ==
    {<<>>,
     <<SampleElement(1, 1)>>,
     <<SampleElement(2, 1), SampleElement(1, 3)>>}

\* reverse geocoding bodies: with and without display_name
ReverseBodies == {[display_name |-> Some(TxtDisplay)], [display_name |-> None]}

ReverseResponses ==
    {Failure(k) : k \in FailureKinds} \cup {Ok(b) : b \in ReverseBodies}

\* what reverse_geocode returns for a response it does not raise on
reverse_geocode(r) ==
    IF r.kind = "ok" THEN
        IF Val(r.body).display_name # None
        THEN Val(Val(r.body).display_name)
        ELSE AddressNotAvailable
    ELSE AddressNotAvailable

\* requests.get raises, or r.json() raises on a 200 response
ReverseRaises(r) == r.kind \in {"transport", "malformed"}

\* a faulty variant of SkipElem: a node matching an inclusion keyword is kept
\* without looking at the exclusions
SkipElemInclusionFirst(elem) ==
    LET name == Strip(elem.tags.name)
        shop_tag == Strip(elem.tags.shop)
    IN  IF name = <<>> THEN TRUE
        ELSE IF AnyIn(keywords, Lower(name)) \/ AnyIn(keywords, Lower(shop_tag))
        THEN FALSE
        ELSE TRUE

\* lines 272-280: whether the loop body ends in one of its three continues
SkipElem(elem) ==
    LET name == Strip(elem.tags.name)
        shop_tag == Strip(elem.tags.shop)
    IN  IF name = <<>> THEN TRUE
        ELSE IF AnyIn(exclusions, Lower(name)) THEN TRUE
        ELSE IF ~(AnyIn(keywords, Lower(name)) \/ AnyIn(keywords, Lower(shop_tag)))
        THEN TRUE
        ELSE FALSE

\* a faulty variant of AddressParts: city before street
AddressPartsCityFirst(tags) ==
    (IF Strip(tags.addr_housenumber) # <<>>
     THEN <<Strip(tags.addr_housenumber)>> ELSE <<>>)
    \o (IF Strip(tags.addr_city) # <<>>
        THEN <<Strip(tags.addr_city)>> ELSE <<>>)
    \o (IF Strip(tags.addr_street) # <<>>
        THEN <<Strip(tags.addr_street)>> ELSE <<>>)

\* lines 285-291: address_parts
AddressParts(tags) ==
    (IF Strip(tags.addr_housenumber) # <<>>
     THEN <<Strip(tags.addr_housenumber)>> ELSE <<>>)
    \o (IF Strip(tags.addr_street) # <<>>
        THEN <<Strip(tags.addr_street)>> ELSE <<>>)
    \o (IF Strip(tags.addr_city) # <<>>
        THEN <<Strip(tags.addr_city)>> ELSE <<>>)

\* lines 281-295 reach the reverse_geocode call
CallsReverse(tags) == Strip(tags.addr_full) = <<>> /\ AddressParts(tags) = <<>>

\* lines 281-295: address, given the response r to the reverse_geocode call
\* that is made when the tags hold no address
Address(tags, r) ==
    IF Strip(tags.addr_full) # <<>> THEN Strip(tags.addr_full)
    ELSE IF AddressParts(tags) # <<>> THEN Join(CommaSpace, AddressParts(tags))
    ELSE reverse_geocode(r)

\* lines 263-267: the Overpass request
ShopRequest(r) ==
    /\ pc = "shop_request"
    /\ calls' = [calls EXCEPT !.shop = @ + 1]
    /\ IF r.kind = "transport" THEN
            /\ Raise("ConnectionError")
            /\ UNCHANGED <<elements, idx, shops>>
       ELSE IF r.kind = "status" THEN
            /\ pc' = "shop_show"
            /\ elements' = <<>>
            /\ idx' = 0
            /\ shops' = <<>>
            /\ exc' = exc
       ELSE IF r.kind = "malformed" THEN
            /\ Raise("JSONDecodeError")
            /\ UNCHANGED <<elements, idx, shops>>
       ELSE
            /\ pc' = "shop_loop"
            /\ elements' = Val(r.body)
            /\ idx' = 0
            /\ shops' = <<>>
            /\ exc' = exc
    /\ rev_log' = <<>>
    /\ UNCHANGED <<shown, temp, current_precip, lat, lon, hourly_precip,
                   irrigation_req, ndvi_val, soil_selected, fertilizer, pesticide,
                   soil_r, fractions, soil_type, farmers_col, reg,
                   session_state, crop_inventory_col, pesticide_inventory_col, event>>

\* lines 271-296: one pass through the loop body, r being the response to
\* the reverse geocoding request if the pass makes one
ShopElem(r) ==
    /\ pc = "shop_loop"
    /\ idx < Len(elements)
    /\ LET elem == elements[idx + 1] IN
        IF SkipElem(elem) THEN
            /\ idx' = idx + 1
            /\ UNCHANGED <<pc, exc, calls, shops, rev_log>>
        ELSE IF CallsReverse(elem.tags) THEN
            /\ calls' = [calls EXCEPT !.reverse = @ + 1]
            /\ rev_log' = Append(rev_log, [lat |-> elem.lat, lon |-> elem.lon, r |-> r])
            /\ IF ReverseRaises(r) THEN
                    /\ Raise(IF r.kind = "transport"
                             THEN "ConnectionError" ELSE "JSONDecodeError")
                    /\ UNCHANGED <<idx, shops>>
               ELSE
                    /\ idx' = idx + 1
                    /\ shops' = Append(shops, [Name |-> Strip(elem.tags.name),
                                               Type |-> Strip(elem.tags.shop),
                                               Address |-> Address(elem.tags, r)])
                    /\ UNCHANGED <<pc, exc>>
        ELSE
            /\ idx' = idx + 1
            /\ shops' = Append(shops, [Name |-> Strip(elem.tags.name),
                                       Type |-> Strip(elem.tags.shop),
                                       Address |-> Address(elem.tags, r)])
            /\ UNCHANGED <<pc, exc, calls, rev_log>>
    /\ UNCHANGED <<shown, temp, current_precip, lat, lon, hourly_precip,
                   irrigation_req, ndvi_val, soil_selected, fertilizer, pesticide,
                   elements, soil_r, fractions, soil_type, farmers_col, reg,
                   session_state, crop_inventory_col, pesticide_inventory_col, event>>

\* lines 297-301: the loop is over, the data frame is returned
ShopReturn ==
    /\ pc = "shop_loop"
    /\ idx = Len(elements)
    /\ pc' = "shop_show"
    /\ UNCHANGED <<exc, calls, shown, temp, current_precip, lat, lon,
                   hourly_precip, irrigation_req, ndvi_val, soil_selected,
                   fertilizer, pesticide, elements, idx, shops, rev_log, soil_r, fractions,
                   soil_type, farmers_col, reg,
                   session_state, crop_inventory_col, pesticide_inventory_col, event>>

\* lines 476-480: the table, or the note that there is none
ShopShow ==
    /\ pc = "shop_show"
    /\ shown' = IF shops = <<>>
                THEN shown \cup {"No nearby agro-shops found."}
                ELSE shown
    /\ pc' = "tab3"
    /\ UNCHANGED <<exc, calls, temp, current_precip, lat, lon, hourly_precip,
                   irrigation_req, ndvi_val, soil_selected, fertilizer, pesticide,
                   elements, idx, shops, rev_log, soil_r, fractions, soil_type, farmers_col,
                   reg,
                   session_state, crop_inventory_col, pesticide_inventory_col, event>>

(***************************************************************************)
(* get_soil_type                                                           *)
(***************************************************************************)
\* "sand"
KwSand ==
    <<"s", "a", "n", "d">>

\* "clay"
KwClay ==
    <<"c", "l", "a", "y">>

\* "silt"
KwSilt ==
    <<"s", "i", "l", "t">>

\* "bdod"
TxtBdod ==
    <<"b", "d", "o", "d">>

\* fractions are 20 * k, k in 0..MaxFractionStep
MaxFractionStep == 2

Fractions == {20 * k : k \in 0..MaxFractionStep}

\* longest properties.layers list of a SoilGrids body
MaxLayers == 3

\* A layer: its name, whether it has a non-empty depths list, and
\* depths[0].values.mean (absent or null: None).
\* The three fractions come with every value; a layer of another property,
\* a layer without depths and a layer without a mean come once each.
SoilLayers ==
    {[name |-> n, has_depths |-> TRUE, mean |-> Some(v)] :
        n \in {KwSand, KwClay, KwSilt}, v \in Fractions}
        \cup {[name |-> TxtBdod, has_depths |-> TRUE, mean |-> Some(0)],
              [name |-> KwSilt, has_depths |-> FALSE, mean |-> None],
              [name |-> KwClay, has_depths |-> TRUE, mean |-> None]}

SoilBodies == SeqUpTo(SoilLayers, MaxLayers)

SoilResponses == {Failure(k) : k \in FailureKinds} \cup {Ok(b) : b \in SoilBodies}

NoFractions == [sand |-> None, clay |-> None, silt |-> None]

\* lines 222-234: the loop over the layers, f being sand, clay and silt so far
RECURSIVE ScanLayers(_, _)
ScanLayers(layers, f) ==
    IF layers = <<>> THEN f
    ELSE LET layer == Head(layers)
             name == Lower(layer.name)
             g == IF ~layer.has_depths THEN f
                  ELSE IF layer.mean = None THEN f
                  ELSE IF Contains(name, KwSand) THEN [f EXCEPT !.sand = layer.mean]
                  ELSE IF Contains(name, KwClay) THEN [f EXCEPT !.clay = layer.mean]
                  ELSE IF Contains(name, KwSilt) THEN [f EXCEPT !.silt = layer.mean]
                  ELSE f
         IN  ScanLayers(Tail(layers), g)

\* a faulty variant of Classify: strict comparisons, so that a shared maximum
\* falls through to Loamy
ClassifyStrict(sand, clay, silt) ==
    IF sand > clay /\ sand > silt THEN "Sandy"
    ELSE IF clay > sand /\ clay > silt THEN "Clay"
    ELSE IF silt > sand /\ silt > clay THEN "Silty"
    ELSE "Loamy"

\* a faulty variant of Classify: clay tested before sand
ClassifyClayFirst(sand, clay, silt) ==
    IF clay >= sand /\ clay >= silt THEN "Clay"
    ELSE IF sand >= clay /\ sand >= silt THEN "Sandy"
    ELSE IF silt >= sand /\ silt >= clay THEN "Silty"
    ELSE "Loamy"

\* lines 237-244
Classify(sand, clay, silt) ==
    IF sand >= clay /\ sand >= silt THEN "Sandy"
    ELSE IF clay >= sand /\ clay >= silt THEN "Clay"
    ELSE IF silt >= sand /\ silt >= clay THEN "Silty"
    ELSE "Loamy"

\* lines 235-244: the value returned for the scanned fractions
SoilOf(f) ==
    IF f.sand = None \/ f.clay = None \/ f.silt = None THEN None
    ELSE Some(Classify(Val(f.sand), Val(f.clay), Val(f.silt)))

\* get_soil_type(lat, lon), r being the response to its request.  The
\* request is made outside the try block: an exception of requests.get
\* leaves the function.  A body that is not JSON, or not of the expected
\* shape, raises inside the try block and is turned into None.
get_soil_type(r) ==
    /\ pc = "soil_request"
    /\ calls' = [calls EXCEPT !.soil = @ + 1]
    /\ soil_r' = Some(r)
    /\ IF r.kind = "transport" THEN
            /\ Raise("ConnectionError")
            /\ UNCHANGED <<fractions, soil_type>>
       ELSE
            /\ pc' = "soil_returned"
            /\ exc' = exc
            /\ IF r.kind = "ok" THEN
                    /\ fractions' = ScanLayers(Val(r.body), NoFractions)
                    /\ soil_type' = SoilOf(fractions')
               ELSE
                    /\ fractions' = NoFractions
                    /\ soil_type' = None
    /\ UNCHANGED <<shown, temp, current_precip, lat, lon, hourly_precip,
                   irrigation_req, ndvi_val, soil_selected, fertilizer, pesticide,
                   elements, idx, shops, rev_log, farmers_col, reg,
                   session_state, crop_inventory_col, pesticide_inventory_col, event>>

(***************************************************************************)
(* show_main_app, tab 3                                                    *)
(***************************************************************************)
\* lines 481-517 with neither Add button pressed: the two inventories are
\* listed and the script run ends
Tab3 ==
    /\ pc = "tab3"
    /\ pc' = "done"
    /\ UNCHANGED <<exc, calls, shown, temp, current_precip, lat, lon,
                   hourly_precip, irrigation_req, ndvi_val, soil_selected,
                   fertilizer, pesticide, elements, idx, shops, rev_log, soil_r,
                   fractions, soil_type, farmers_col, reg,
                   session_state, crop_inventory_col, pesticide_inventory_col, event>>

(***************************************************************************)
(* register_farmer and the farmers collection                              *)
(***************************************************************************)
\* browser sessions, each running the script in a thread of its own
NumSessions == 2

Sessions == 1..NumSessions

\* the farmers collection is let grow to MaxAccounts documents
MaxAccounts == 2

Usernames == {"asha", "ravi"}

Passwords == {"pw1", "pw2"}

\* bcrypt.gensalt()
Salts == {"salt1"}

\* bcrypt.hashpw: the salt, and a digest that only the same password and
\* the same salt give
hash_password(password, salt) ==
    [salt |-> salt, digest |-> <<"bcrypt", salt, password>>]

\* bcrypt.checkpw
check_password(password, hashed) ==
    hash_password(password, hashed.salt) = hashed

\* farmers_col.find_one({"username": username}): the first match, or None
find_one(col, username) ==
    IF \E i \in 1..Len(col) : col[i].username = username
    THEN Some(col[CHOOSE i \in 1..Len(col) :
                    /\ col[i].username = username
                    /\ \A j \in 1..(i - 1) : col[j].username # username])
    ELSE None

\* no register_farmer call in progress
RegIdle == [at |-> "idle", username |-> None, password |-> None]

\* register_farmer calls in flight between find_one and insert_one
Inserting == {s \in Sessions : reg[s].at = "insert"}

\* the variables of a single script run of the main application and of
\* get_soil_type, which no login, registration or inventory step touches
renderVars == <<pc, exc, calls, shown, temp, current_precip, lat, lon,
                hourly_precip, irrigation_req, ndvi_val, soil_selected,
                fertilizer, pesticide, elements, idx, shops, rev_log, soil_r,
                fractions, soil_type>>

(***************************************************************************)
(* Sessions: main, show_login, show_register, the sidebar of show_main_app *)
(***************************************************************************)
\* lines 523-526: session state as main leaves it on a session's first run;
\* username is only set by a successful login
SessionFresh == [logged_in |-> FALSE, page |-> "login", username |-> None]

\* lines 528-533: the page function main calls
Route(st) ==
    IF st.logged_in /\ st.page = "main" THEN "show_main_app"
    ELSE IF st.page = "register" THEN "show_register"
    ELSE "show_login"

\* what a script run leaves on the page: the session, the button that was
\* pressed, how the run ended, the message shown and the inventories listed
EventOf(s, button, outcome, msg, crops, pests) ==
    [session |-> s, button |-> button, outcome |-> outcome, msg |-> msg,
     user_crops |-> crops, user_pesticides |-> pests]

NoEvent == EventOf(0, "none", "none", "", None, None)

\* lines 355-359
login_farmer(username, password) ==
    LET user == find_one(farmers_col, username)
    IN  IF user # None /\ check_password(password, Val(user).password)
        THEN [success |-> TRUE, msg |-> "Login successful."]
        ELSE [success |-> FALSE, msg |-> "Invalid username or password."]

\* lines 371-377: the Login button of session s is pressed
LoginClick(s, username, password) ==
    /\ Route(session_state[s]) = "show_login"
    /\ reg[s].at = "idle"
    /\ LET res == login_farmer(username, password)
       IN  /\ session_state' =
                  IF res.success
                  THEN [session_state EXCEPT
                            ![s] = [logged_in |-> TRUE,
                                    page |-> "main",
                                    username |-> Some(username)]]
                  ELSE session_state
           /\ event' = EventOf(s, "Login", "done",
                               IF res.success THEN "" ELSE res.msg, None, None)
    /\ UNCHANGED renderVars
    /\ UNCHANGED <<farmers_col, reg, crop_inventory_col, pesticide_inventory_col>>

\* lines 380-381: the Go to Registration button of session s is pressed
GoToRegistration(s) ==
    /\ Route(session_state[s]) = "show_login"
    /\ reg[s].at = "idle"
    /\ session_state' = [session_state EXCEPT ![s].page = "register"]
    /\ event' = EventOf(s, "Go to Registration", "done", "", None, None)
    /\ UNCHANGED renderVars
    /\ UNCHANGED <<farmers_col, reg, crop_inventory_col, pesticide_inventory_col>>

\* lines 389-390 and 349-350: the Register button of session s is pressed;
\* find_one runs
RegisterFind(s, username, password) ==
    /\ Route(session_state[s]) = "show_register"
    /\ reg[s].at = "idle"
    /\ IF find_one(farmers_col, username) # None
       THEN /\ reg' = [reg EXCEPT ![s] = RegIdle]
            /\ event' = EventOf(s, "Register", "done", "Username already exists.",
                                None, None)
       ELSE /\ Len(farmers_col) + Cardinality(Inserting) < MaxAccounts
            /\ reg' = [reg EXCEPT ![s] = [at |-> "insert",
                                          username |-> Some(username),
                                          password |-> Some(password)]]
            /\ event' = EventOf(s, "Register", "running", "", None, None)
    /\ UNCHANGED renderVars
    /\ UNCHANGED <<farmers_col, session_state, crop_inventory_col,
                   pesticide_inventory_col>>

\* lines 351-353 and 391-394: the password is hashed, the document inserted
\* and the session sent to the login page
RegisterInsert(s, salt) ==
    /\ reg[s].at = "insert"
    /\ farmers_col' =
           Append(farmers_col,
                  [username |-> Val(reg[s].username),
                   password |-> hash_password(Val(reg[s].password), salt)])
    /\ reg' = [reg EXCEPT ![s] = RegIdle]
    /\ session_state' = [session_state EXCEPT ![s].page = "login"]
    /\ event' = EventOf(s, "Register", "done", "Registration successful.",
                        None, None)
    /\ UNCHANGED renderVars
    /\ UNCHANGED <<crop_inventory_col, pesticide_inventory_col>>

\* lines 398-399: the Back to Login button of session s is pressed
BackToLogin(s) ==
    /\ Route(session_state[s]) = "show_register"
    /\ reg[s].at = "idle"
    /\ session_state' = [session_state EXCEPT ![s].page = "login"]
    /\ event' = EventOf(s, "Back to Login", "done", "", None, None)
    /\ UNCHANGED renderVars
    /\ UNCHANGED <<farmers_col, reg, crop_inventory_col, pesticide_inventory_col>>

\* a faulty variant of Logout: the page is left as it was
LogoutKeepPage(st) == [st EXCEPT !.logged_in = FALSE]

\* lines 405-407: the Logout button; username stays in the session state
Logout(st) == [st EXCEPT !.logged_in = FALSE, !.page = "login"]

(***************************************************************************)
(* Tab 3: the inventories                                                  *)
(***************************************************************************)
\* each inventory collection is let grow to MaxRecords documents
MaxRecords == 2

\* lines 152-158
default_crop_prices ==
    [Wheat |-> 20, Rice |-> 25, Maize |-> 18, Sugarcane |-> 30, Cotton |-> 40]

\* the crops picked in the selectbox
Crops == {"Wheat", "Rice"}

\* the quantities typed in (min_value=0)
Quantities == {0, 5}

\* the pesticide names typed in
PesticideNames == {"neem"}

\* the pesticide quantities typed in
PesticideQuantities == {1}

\* the buttons of the main application; "none" is a rerun caused by
\* another widget
MainButtons == {"none", "Logout", "Add Crop", "Add Pesticide"}

\* collection.find({"username": username}, {"_id": 0}): the matching
\* documents in insertion order
find(col, username) == SelectSeq(col, LAMBDA d : d.username = username)

\* lines 486-492: the document Add Crop inserts; the price field is left at
\* its default value
CropDocument(st, crop_selected, quantity) ==
    [username |-> Val(st.username), crop |-> crop_selected,
     quantity |-> quantity, price |-> default_crop_prices[crop_selected]]

\* lines 505-510: the document Add Pesticide inserts
PesticideDocument(st, pesticide_name, pesticide_qty) ==
    [username |-> Val(st.username), pesticide |-> pesticide_name,
     quantity |-> pesticide_qty]

\* lines 401-517, one script run of the main application in session s with
\* the button clicked pressed (Streamlit reports one button per run).  The
\* Logout handler runs first; tabs 1 and 2 follow and touch neither the
\* session state nor the collections, so they are kept here only as their
\* outcome: they complete, or one of their requests raises and the run ends
\* before tab 3 (SpecRender reaches both outcomes); tab 3 then inserts the
\* document of the pressed Add button and lists the session's inventories.
show_main_app(s, clicked, raised, crop_selected, quantity, pesticide_name, pesticide_qty) ==
    /\ Route(session_state[s]) = "show_main_app"
    /\ clicked = "Add Crop" => Len(crop_inventory_col) < MaxRecords
    /\ clicked = "Add Pesticide" => Len(pesticide_inventory_col) < MaxRecords
    /\ LET st == IF clicked = "Logout"
                 THEN Logout(session_state[s])
                 ELSE session_state[s]
       IN  /\ session_state' = [session_state EXCEPT ![s] = st]
           /\ IF raised
              THEN /\ UNCHANGED <<crop_inventory_col, pesticide_inventory_col>>
                   /\ event' = EventOf(s, clicked, "raised", "", None, None)
              ELSE /\ crop_inventory_col' =
                          IF clicked = "Add Crop"
                          THEN Append(crop_inventory_col,
                                      CropDocument(st, crop_selected, quantity))
                          ELSE crop_inventory_col
                   /\ pesticide_inventory_col' =
                          IF clicked = "Add Pesticide"
                          THEN Append(pesticide_inventory_col,
                                      PesticideDocument(st, pesticide_name,
                                                        pesticide_qty))
                          ELSE pesticide_inventory_col
                   /\ event' =
                          EventOf(s, clicked, "done",
                                  IF clicked = "Add Crop"
                                  THEN "Crop inventory added."
                                  ELSE IF clicked = "Add Pesticide"
                                  THEN "Pesticide inventory added."
                                  ELSE "",
                                  Some(find(crop_inventory_col', Val(st.username))),
                                  Some(find(pesticide_inventory_col',
                                            Val(st.username))))
    /\ UNCHANGED renderVars
    /\ UNCHANGED <<farmers_col, reg>>

(***************************************************************************)
(* Initial states and specifications                                       *)
(***************************************************************************)
NoCalls == [geocode |-> 0, weather |-> 0, ndvi |-> 0, soil |-> 0, shop |-> 0,
            reverse |-> 0]

\* nothing of tab 2 has run
Tab2Fresh ==
    /\ ndvi_val = None
    /\ soil_selected = None
    /\ fertilizer = None
    /\ pesticide = None

ShopFresh ==
    /\ elements = <<>>
    /\ idx = 0
    /\ shops = <<>>
    /\ rev_log = <<>>

SoilFresh ==
    /\ soil_r = None
    /\ fractions = NoFractions
    /\ soil_type = None

\* lines 141-145 and 523-526: empty collections, sessions on their first run
StoreFresh ==
    /\ farmers_col = <<>>
    /\ reg = [s \in Sessions |-> RegIdle]
    /\ session_state = [s \in Sessions |-> SessionFresh]
    /\ crop_inventory_col = <<>>
    /\ pesticide_inventory_col = <<>>
    /\ event = NoEvent

\* no script run in progress
NoRender ==
    /\ exc = "none"
    /\ calls = NoCalls
    /\ shown = {}
    /\ temp = None
    /\ current_precip = None
    /\ lat = None
    /\ lon = None
    /\ hourly_precip = None
    /\ irrigation_req = None
    /\ Tab2Fresh
    /\ ShopFresh

\* the account store and the sessions: empty collections, every session on
\* its first run
Init ==
    /\ pc = "idle"
    /\ NoRender
    /\ SoilFresh
    /\ StoreFresh

\* the event of a session: a button of the page main routes it to, or the
\* pending insert of its register_farmer call
Next ==
    \/ \E s \in Sessions, u \in Usernames, p \in Passwords : LoginClick(s, u, p)
    \/ \E s \in Sessions : GoToRegistration(s)
    \/ \E s \in Sessions, u \in Usernames, p \in Passwords : RegisterFind(s, u, p)
    \/ \E s \in Sessions, salt \in Salts : RegisterInsert(s, salt)
    \/ \E s \in Sessions : BackToLogin(s)
    \/ \E s \in Sessions, clicked \in {"none", "Logout"}, raised \in BOOLEAN :
           show_main_app(s, clicked, raised, "Wheat", 0, "neem", 0)

Spec == Init /\ [][Next]_vars

\* the inventories: both accounts are registered and the sessions are on the
\* login page, a state Spec reaches
InitInventory ==
    /\ pc = "idle"
    /\ NoRender
    /\ SoilFresh
    /\ farmers_col = <<[username |-> "asha", password |-> hash_password("pw1", "salt1")],
                       [username |-> "ravi", password |-> hash_password("pw2", "salt1")]>>
    /\ reg = [s \in Sessions |-> RegIdle]
    /\ session_state = [s \in Sessions |-> SessionFresh]
    /\ crop_inventory_col = <<>>
    /\ pesticide_inventory_col = <<>>
    /\ event = EventOf(2, "Register", "done", "Registration successful.", None, None)

NextInventory ==
    \/ \E s \in Sessions, u \in Usernames, p \in Passwords : LoginClick(s, u, p)
    \/ \E s \in Sessions, clicked \in MainButtons, raised \in BOOLEAN,
          crop_selected \in Crops, quantity \in Quantities,
          pesticide_name \in PesticideNames,
          pesticide_qty \in PesticideQuantities :
           show_main_app(s, clicked, raised, crop_selected, quantity,
                         pesticide_name, pesticide_qty)

SpecInventory == InitInventory /\ [][NextInventory]_vars

\* one render of show_main_app, from the first statement of tab 1
InitRender ==
    /\ pc = "tab1_geo"
    /\ NoRender
    /\ SoilFresh
    /\ StoreFresh

GeoResponses == {Failure(k) : k \in FailureKinds} \cup {Ok(b) : b \in GeoBodies}

WeatherResponses(bodies) ==
    {Failure(k) : k \in FailureKinds} \cup {Ok(b) : b \in bodies}

ShopResponses(bodies) ==
    {Failure(k) : k \in FailureKinds} \cup {Ok(b) : b \in bodies}

\* Each request is answered by any of its responses.  The position is
\* tested before the responses are enumerated.
NextRender ==
    \/ pc \in {"tab1_geo", "tab2_geo"} /\ \E r \in GeoResponses : GeocodeStep(r)
    \/ /\ pc \in {"tab1_weather", "tab2_weather"}
       /\ \E r \in WeatherResponses(RenderWeatherBodies) : WeatherStep(r)
    \/ Tab1Show
    \/ Tab2Show
    \/ pc = "tab2_ndvi" /\ \E o \in NdviOutcomes(RenderNdviValues) : NdviStep(o)
    \/ pc = "tab2_fert" /\ \E s \in SoilCategories : Tab2Fert(s)
    \/ /\ pc = "shop_request"
       /\ \E r \in ShopResponses(RenderShopBodies) : ShopRequest(r)
    \/ pc = "shop_loop" /\ \E r \in ReverseResponses : ShopElem(r)
    \/ ShopReturn
    \/ ShopShow
    \/ Tab3

SpecRender == InitRender /\ [][NextRender]_vars

\* tab 1 from the forecast request on, over all forecast bodies
InitIrrigation ==
    /\ pc = "tab1_weather"
    /\ exc = "none"
    /\ calls = [NoCalls EXCEPT !.geocode = 1]
    /\ shown = {}
    /\ temp = None
    /\ current_precip = None
    /\ lat = Some(19)
    /\ lon = Some(72)
    /\ hourly_precip = None
    /\ irrigation_req = None
    /\ Tab2Fresh
    /\ ShopFresh
    /\ SoilFresh
    /\ StoreFresh

NextIrrigation ==
    \/ pc = "tab1_weather" /\ \E r \in WeatherResponses(WeatherBodies) : WeatherStep(r)
    \/ Tab1Show

SpecIrrigation == InitIrrigation /\ [][NextIrrigation]_vars

\* the locals of a render whose two forecast requests both answered 20
\* degrees and an empty hourly series
WeatherObtained ==
    /\ exc = "none"
    /\ temp = Some(20)
    /\ current_precip = Some(0)
    /\ lat = Some(19)
    /\ lon = Some(72)
    /\ hourly_precip = Some(<<>>)
    /\ irrigation_req = Some(IrrigationReq3(20, <<>>, 0))

\* tab 2 from the vegetation index on, over all index values
InitFert ==
    /\ pc = "tab2_ndvi"
    /\ WeatherObtained
    /\ calls = [NoCalls EXCEPT !.geocode = 2, !.weather = 2]
    /\ shown = {}
    /\ Tab2Fresh
    /\ ShopFresh
    /\ SoilFresh
    /\ StoreFresh

NextFert ==
    \/ pc = "tab2_ndvi" /\ \E o \in NdviOutcomes(NdviValues) : NdviStep(o)
    \/ pc = "tab2_fert" /\ \E s \in SoilCategories : Tab2Fert(s)

SpecFert == InitFert /\ [][NextFert]_vars

\* get_live_shop_list as tab 2 calls it, over all Overpass bodies
InitShop ==
    /\ pc = "shop_request"
    /\ WeatherObtained
    /\ calls = [NoCalls EXCEPT !.geocode = 2, !.weather = 2, !.ndvi = 1]
    /\ shown = {"NDVI data unavailable."}
    /\ Tab2Fresh
    /\ ShopFresh
    /\ SoilFresh
    /\ StoreFresh

NextShop ==
    \/ pc = "shop_request" /\ \E r \in ShopResponses(ShopBodies) : ShopRequest(r)
    \/ pc = "shop_loop" /\ \E r \in ReverseResponses : ShopElem(r)
    \/ ShopReturn

SpecShop == InitShop /\ [][NextShop]_vars

\* one call of get_soil_type, over all SoilGrids responses
InitSoil ==
    /\ pc = "soil_request"
    /\ NoRender
    /\ SoilFresh
    /\ StoreFresh

NextSoil == pc = "soil_request" /\ \E r \in SoilResponses : get_soil_type(r)

SpecSoil == InitSoil /\ [][NextSoil]_vars

(***************************************************************************)
(* C1: the irrigation recommendation                                       *)
(***************************************************************************)
\* the mean of the last three entries, in thirds, or the current value
C1_AvgRain3(P, c) ==
    IF Len(P) >= 3 THEN P[Len(P) - 2] + P[Len(P) - 1] + P[Len(P)] ELSE 3 * c

C1_Formula3(T, P, c) ==
    LET v == 3 * 25 + 3 * (T - 20) - C1_AvgRain3(P, c)
    IN  IF v < 0 THEN 0 ELSE v

\* C1: whenever tab 1 has computed the irrigation recommendation from the
\* temperature T, the hourly series P and the current precipitation c that
\* get_weather_data returned, the recommendation is
\* max(0, 25 + (T - 20) - avgRain), avgRain being the mean of the last 3
\* entries of P when P has at least 3 entries and c otherwise; it is never
\* negative; T = 20, P = [0,0,0] gives 25 and T = 30, P = [5,5,5] gives 30
\* (amounts in thirds of a millimetre).
C1_Irrigation ==
    irrigation_req # None =>
        /\ Val(irrigation_req) =
               C1_Formula3(Val(temp), Val(hourly_precip), Val(current_precip))
        /\ Val(irrigation_req) >= 0
        /\ (temp = Some(20) /\ hourly_precip = Some(<<0, 0, 0>>)
                => Val(irrigation_req) = 3 * 25)
        /\ (temp = Some(30) /\ hourly_precip = Some(<<5, 5, 5>>)
                => Val(irrigation_req) = 3 * 30)

\* a series of four entries whose first differs from its last three
C1_Witness ==
    /\ pc = "tab2_geo"
    /\ temp = Some(30)
    /\ hourly_precip = Some(<<0, 5, 5, 5>>)
    /\ irrigation_req = Some(3 * 30)

(***************************************************************************)
(* C2, C3: soil classification                                             *)
(***************************************************************************)
\* the usable layers of a body whose name is kw, in order
C2_Usable(body, kw) ==
    SelectSeq(body, LAMBDA l : l.name = kw /\ l.has_depths /\ l.mean # None)

\* the fraction the body gives for kw: that of its last usable layer
C2_Fraction(body, kw) ==
    IF C2_Usable(body, kw) = <<>> THEN None
    ELSE C2_Usable(body, kw)[Len(C2_Usable(body, kw))].mean

C2_Order == <<"Sandy", "Clay", "Silty">>

\* the first category in the order Sandy, Clay, Silty whose fraction is
\* greater than or equal to both others
C2_First(sand, clay, silt) ==
    LET v == <<sand, clay, silt>>
        top(i) == \A j \in 1..3 : v[i] >= v[j]
    IN  C2_Order[CHOOSE i \in 1..3 : top(i) /\ \A j \in 1..(i - 1) : ~top(j)]

C3_SharedMaximum ==
    /\ fractions.sand # None /\ fractions.clay # None /\ fractions.silt # None
    /\ LET v == <<Val(fractions.sand), Val(fractions.clay), Val(fractions.silt)>>
       IN  \E i, j \in 1..3 :
               /\ i # j
               /\ v[i] = v[j]
               /\ \A k \in 1..3 : v[i] >= v[k]

\* C3 as stated: for fractions whose maximum is shared by two or more of
\* them, get_soil_type returns Loamy.
C3_Original ==
    pc = "soil_returned" /\ C3_SharedMaximum => soil_type = Some("Loamy")

\* C3 as amended: get_soil_type never returns Loamy, and for fractions
\* whose maximum is shared by two or more of them it returns Sandy when
\* sand is among those holding the maximum and Clay otherwise.
C3_SharedMaximumNotLoamy ==
    /\ soil_type # Some("Loamy")
    /\ pc = "soil_returned" /\ C3_SharedMaximum =>
           soil_type = IF Val(fractions.sand) >= Val(fractions.clay)
                          /\ Val(fractions.sand) >= Val(fractions.silt)
                       THEN Some("Sandy")
                       ELSE Some("Clay")

C3_Witness ==
    /\ pc = "soil_returned"
    /\ fractions = [sand |-> Some(20), clay |-> Some(40), silt |-> Some(40)]
    /\ soil_type = Some("Clay")

(***************************************************************************)
(* C4: fertilizer and pesticide                                            *)
(***************************************************************************)
C4_Clause(s) ==
    CASE s = "Sandy" -> " (Add extra organic matter & water)"
      [] s = "Loamy" -> " (Balanced approach)"
      [] s = "Clay" -> " (Ensure drainage, avoid overwatering)"
      [] s = "Silty" -> " (Moderate water-holding capacity)"

\* C4: whenever tab 2 has computed the recommendation for a vegetation
\* index v and a soil category s, v < 0.5 gives the high-NPK fertilizer and
\* the broad-spectrum pesticide, 0.5 <= v < 0.7 the moderate fertilizer and
\* the targeted pesticide, v >= 0.7 the minimal fertilizer and no
\* pesticide; the fertilizer text is the band's text followed by the
\* clause of s, and the pesticide text is fixed by the band alone (v in
\* hundredths).
C4_Bands ==
    fertilizer # None =>
        LET v == Val(ndvi_val)
            s == Val(soil_selected)
        IN  /\ v < 50 =>
                  /\ fertilizer = Some("High NPK mix (Urea, DAP, MOP)" \o C4_Clause(s))
                  /\ pesticide = Some("Broad-spectrum insecticide (e.g., Chlorpyrifos)")
            /\ 50 <= v /\ v < 70 =>
                  /\ fertilizer =
                         Some("Moderate NPK mix (Balanced fertilizer)" \o C4_Clause(s))
                  /\ pesticide = Some("Targeted pesticide (e.g., Imidacloprid)")
            /\ v >= 70 =>
                  /\ fertilizer = Some("Minimal fertilizer needed" \o C4_Clause(s))
                  /\ pesticide = Some("No pesticide required")

\* the upper threshold itself, on clay
C4_Witness ==
    /\ ndvi_val = Some(70)
    /\ soil_selected = Some("Clay")
    /\ fertilizer =
           Some("Minimal fertilizer needed (Ensure drainage, avoid overwatering)")
    /\ pesticide = Some("No pesticide required")

(***************************************************************************)
(* C5, C6, C7: one render                                                  *)
(***************************************************************************)
\* the positions of a render after the fertilizer block of tab 2
C5_PastFert == {"shop_request", "shop_loop", "shop_show", "tab3", "done"}

\* C5: within one render, the irrigation recommendation exists only if the
\* forecast request of tab 1 returned a snapshot (its hourly series is
\* bound), and the fertilizer and pesticide recommendation exists only if
\* tab 2 obtained both a snapshot and a vegetation index; when the
\* vegetation-index call raised or gave no value, the recommendation is
\* skipped entirely and "NDVI data unavailable." is shown.
C5_NoRecommendationWithoutInput ==
    /\ irrigation_req # None => hourly_precip # None
    /\ fertilizer # None \/ pesticide # None \/ soil_selected # None
           => ndvi_val # None /\ temp # None
    /\ pc \in C5_PastFert /\ calls.ndvi = 1 /\ ndvi_val = None
           => /\ fertilizer = None
              /\ pesticide = None
              /\ "NDVI data unavailable." \in shown

\* a finished render whose vegetation-index call failed after both
\* forecast requests succeeded
C5_Witness ==
    /\ pc = "done"
    /\ irrigation_req # None
    /\ calls.ndvi = 1
    /\ ndvi_val = None
    /\ fertilizer = None
    /\ "NDVI data unavailable." \in shown

\* C6: no failure of an external call leaves the render as an exception.
C6_NoExceptionEscapes == exc = "none" /\ pc # "crashed"

C8_Inclusion == {KwAgro, KwFarm, KwAgr, KwHort, KwGarden, KwAgriculture}

C8_Exclusion == {ExClothes, ExApparel, ExFashion, ExFootwear}

\* the element has a non-empty name, its name contains no exclusion
\* keyword, and its name or its shop tag contains an inclusion keyword
C8_Keep(e) ==
    LET name == Lower(Strip(e.tags.name))
        tag == Lower(Strip(e.tags.shop))
    IN  /\ name # <<>>
        /\ \A x \in C8_Exclusion : ~Contains(name, x)
        /\ \E k \in C8_Inclusion : Contains(name, k) \/ Contains(tag, k)

\* the elements among the first n that are kept, in source order
C8_Kept(elems, n) == SelectSeq(SubSeq(elems, 1, n), C8_Keep)

\* C8: the list built by get_live_shop_list is, at every point of its loop
\* and when it returns, exactly the subsequence (in source order) of the
\* elements looped over so far that have a non-empty name, whose name
\* contains no exclusion keyword and whose name or shop tag contains an
\* inclusion keyword, case-insensitively; exclusion by name wins over
\* inclusion, so "City Fashion Footwear" / "clothes" is never listed and
\* "Krishna Agro Center" is listed once looped over.
C8_ShopFilter ==
    pc \in {"shop_loop", "shop_show"} =>
        LET kept == C8_Kept(elements, idx)
        IN  /\ Len(shops) = Len(kept)
            /\ \A i \in 1..Len(shops) :
                   /\ shops[i].Name = Strip(kept[i].tags.name)
                   /\ shops[i].Type = Strip(kept[i].tags.shop)
                   /\ shops[i].Name # TxtCityFashion
            /\ \A k \in 1..idx :
                   elements[k].tags.name = TxtKrishna
                       => \E i \in 1..Len(shops) : shops[i].Name = TxtKrishna

\* the two nodes the claim names, the dropped one first
C8_Witness ==
    /\ pc = "shop_show"
    /\ Len(elements) = 2
    /\ elements[1].tags.name = TxtCityFashion
    /\ elements[1].tags.shop = TxtClothes
    /\ elements[2].tags.name = TxtKrishna
    /\ Len(shops) = 1
    /\ shops[1].Name = TxtKrishna

C9_NonEmpty(t) == t # <<>>

\* the non-empty parts among house number, street and city, in that order
C9_Parts(tags) ==
    SelectSeq(<<Strip(tags.addr_housenumber), Strip(tags.addr_street),
                Strip(tags.addr_city)>>, C9_NonEmpty)

C9_CommaJoined(parts) ==
    IF Len(parts) = 1 THEN parts[1]
    ELSE IF Len(parts) = 2 THEN parts[1] \o <<",", " ">> \o parts[2]
    ELSE parts[1] \o <<",", " ">> \o parts[2] \o <<",", " ">> \o parts[3]

\* the element has neither a full address nor any address part
C9_NoAddress(e) == Strip(e.tags.addr_full) = <<>> /\ C9_Parts(e.tags) = <<>>

\* the kept elements among the first n that have no address, in order
C9_Reversed(elems, n) == SelectSeq(C8_Kept(elems, n), C9_NoAddress)

\* the outcome of a reverse geocoding request that did not raise
C9_ReverseResult(r) ==
    IF r.kind = "status" THEN AddressNotAvailable
    ELSE IF Val(r.body).display_name = None THEN AddressNotAvailable
    ELSE Val(Val(r.body).display_name)

\* C9: for every listed shop, the address is the full-address tag when it
\* is non-empty; otherwise the comma-joined non-empty parts among house
\* number, street and city, in that order, when there is one; otherwise
\* what the reverse geocoding request for the shop's coordinates gave,
\* which is "Address not available" on a non-success response.  Reverse
\* geocoding requests are made, in order, for exactly the kept elements
\* that have neither a full address nor an address part, with their own
\* coordinates.
C9_AddressResolution ==
    /\ pc = "crashed" /\ rev_log # <<>> =>
           LET reversed == C9_Reversed(elements, idx + 1)
           IN  /\ calls.reverse = Len(rev_log)
               /\ Len(rev_log) = Len(reversed)
               /\ \A j \in 1..Len(rev_log) :
                      /\ rev_log[j].lat = reversed[j].lat
                      /\ rev_log[j].lon = reversed[j].lon
    /\ pc \in {"shop_loop", "shop_show"} =>
           LET kept == C8_Kept(elements, idx)
               reversed == C9_Reversed(elements, idx)
           IN  /\ Len(shops) = Len(kept)
               /\ calls.reverse = Len(rev_log)
               /\ Len(rev_log) = Len(reversed)
               /\ \A j \in 1..Len(rev_log) :
                      /\ rev_log[j].lat = reversed[j].lat
                      /\ rev_log[j].lon = reversed[j].lon
               /\ \A i \in 1..Len(shops) :
                      LET tags == kept[i].tags
                          j == Len(SelectSeq(SubSeq(kept, 1, i), C9_NoAddress))
                      IN  shops[i].Address =
                              IF Strip(tags.addr_full) # <<>> THEN Strip(tags.addr_full)
                              ELSE IF C9_Parts(tags) # <<>>
                              THEN C9_CommaJoined(C9_Parts(tags))
                              ELSE C9_ReverseResult(rev_log[j].r)

\* a shop with all three parts, then a shop without any address whose
\* reverse geocoding request was answered with a non-success status
C9_Witness ==
    /\ pc = "shop_show"
    /\ Len(shops) = 2
    /\ shops[1].Address =
           <<"1", "2", ",", " ", "M", "G", " ", "R", "o", "a", "d", ",", " ",
             "P", "u", "n", "e">>
    /\ Len(rev_log) = 1
    /\ rev_log[1].r.kind = "status"
    /\ shops[2].Address = AddressNotAvailable

(***************************************************************************)
(* C10: the account store                                                  *)
(***************************************************************************)
\* C10: the farmers collection holds at most one document per username,
\* whatever register_farmer calls the sessions have made.
C10_UsernamesUnique ==
    \A i, j \in 1..Len(farmers_col) :
        i # j => farmers_col[i].username # farmers_col[j].username

(***************************************************************************)
(* C11: the inventories                                                    *)
(***************************************************************************)
C11_IsPrefix(a, b) == Len(a) <= Len(b) /\ SubSeq(b, 1, Len(a)) = a

\* one more document at the end, carrying the username u
C11_OneAdded(col, colNext, u) ==
    /\ Len(colNext) = Len(col) + 1
    /\ colNext[Len(colNext)].username = u

C11_Owned(listing, u) ==
    listing # None => \A i \in 1..Len(Val(listing)) : Val(listing)[i].username = u

\* a step of the program, described by the script run it records in event
C11_Step ==
    LET e == event'
        u == session_state[e.session].username
    IN  /\ C11_IsPrefix(crop_inventory_col, crop_inventory_col')
        /\ C11_IsPrefix(pesticide_inventory_col, pesticide_inventory_col')
        /\ IF e.button = "Add Crop"
           THEN /\ u # None
                /\ C11_OneAdded(crop_inventory_col, crop_inventory_col', Val(u))
                /\ pesticide_inventory_col' = pesticide_inventory_col
           ELSE IF e.button = "Add Pesticide"
           THEN /\ u # None
                /\ C11_OneAdded(pesticide_inventory_col, pesticide_inventory_col',
                                Val(u))
                /\ crop_inventory_col' = crop_inventory_col
           ELSE /\ crop_inventory_col' = crop_inventory_col
                /\ pesticide_inventory_col' = pesticide_inventory_col
        /\ e.user_crops # None \/ e.user_pesticides # None =>
               /\ u # None
               /\ C11_Owned(e.user_crops, Val(u))
               /\ C11_Owned(e.user_pesticides, Val(u))

\* C11: over any sequence of logins, logouts, renders and presses of Add Crop
\* and Add Pesticide in any sessions, every press of an Add button inserts
\* exactly one document, whose username is that of the pressing session; no
\* document already in a collection is changed or removed; and the
\* inventories a session lists hold only documents with that session's
\* username.
C11_AppendOnlyOwned == [][C11_Step]_vars

(***************************************************************************)
(* C12: the page router                                                    *)
(***************************************************************************)
C12_Pages == {"login", "register", "main"}

\* C12: from (logged_in = False, page = "login"), after any presses of Login,
\* Go to Registration, Register, Back to Login and Logout, in every session
\* logged_in is true exactly when page is "main" and page is one of login,
\* register and main; the main application is routed to only with the
\* username of a registered account in the session, never right after a
\* rejected Login or a Logout of that session.
C12_PageRouter ==
    \A s \in Sessions :
        LET st == session_state[s]
        IN  /\ st.logged_in <=> st.page = "main"
            /\ st.page \in C12_Pages
            /\ Route(st) = "show_main_app" =>
                   /\ st.username # None
                   /\ find_one(farmers_col, Val(st.username)) # None
                   /\ ~ (event.session = s /\ event.button = "Logout")
                   /\ ~ (event.session = s /\ event.button = "Login"
                         /\ event.msg = "Invalid username or password.")

\* a session has logged in and out again while another one is logged in
C12_Witness ==
    /\ event.button = "Logout"
    /\ session_state[event.session].username # None
    /\ ~ session_state[event.session].logged_in
    /\ session_state[event.session].page = "login"
    /\ \E s \in Sessions : session_state[s].logged_in /\ session_state[s].page = "main"

====
